---- MODULE Spec2Model ----
(***************************************************************************)
(* libGPUInfo: instance::create and everything it runs -- the version      *)
(* negotiation, the flags request, the two property retrieval strategies,  *)
(* the tag-value property decoder and the product table lookups.           *)
(*                                                                         *)
(* Number representation.  TLC integers are 32-bit signed, so a uint64_t   *)
(* is a tuple of four 16-bit limbs, least significant first, and a         *)
(* uint32_t is an integer that the driver inputs keep below 2^31.          *)
(***************************************************************************)
EXTENDS Integers, Sequences, FiniteSets, TLC

VARIABLES
    pc,                  \* position inside instance::create / object lifetime
    fd,                  \* the control-channel file descriptor
    result,              \* what create() handed to the caller
    failure,             \* which step made the construction fail
    valid_, iface_, info_,   \* instance members
    errno,               \* the thread's errno
    cv,                  \* return value of check_version
    pre_r21, post_r21,   \* check_version: the version_check_t locals <<major, minor>>
    ioctls,              \* the commands of the ioctls issued so far
    status,              \* the error the last ioctl reported (0: none)
    stale_errno,         \* whether errno was set when the last ioctl was issued
    props,               \* init_props_pre_r21: the uk_gpuprops_t local
    groupReads,          \* init_props_pre_r21: indices of group[] that were read
    size,                \* init_props_post_r21: the int returned by the size probe
    stream, blob,        \* the records the driver packed and the bytes it holds
    buffer_,             \* prop_decoder: the buffer
    data_, size_,        \* prop_decoder cursor (offset into buffer_) and bytes left
    reads,               \* prop_decoder: offsets of buffer_ that were read
    raw_core_features, raw_thread_features,   \* locals of decode
    fields               \* the (id, value) pairs next() returned, in order

vars == <<pc, fd, result, failure, valid_, iface_, info_, errno, cv,
          pre_r21, post_r21, ioctls, status, stale_errno,
          props, groupReads, size, stream, blob, buffer_, data_, size_, reads,
          raw_core_features, raw_thread_features, fields>>

----------------------------------------------------------------------------
(* Bounds of the model. *)

\* version replies: minors 0..MaxMinor
MaxMinor == 2
\* the driver packs at most MaxRecs records after the product id
MaxRecs == 2
\* the buffer the decoder gets may miss up to MaxCut trailing bytes
MaxCut == 2
\* the PreEpoch driver reports num_core_groups in 0..MaxCoreGroups
MaxCoreGroups == 17
\* the lookups are applied to core counts 0..MaxCores
MaxCores == 11

----------------------------------------------------------------------------
(* Fixed-width arithmetic. *)

RECURSIVE BitAnd(_, _)
BitAnd(a, b) ==
    IF a = 0 \/ b = 0 THEN 0
    ELSE (a % 2) * (b % 2) + 2 * BitAnd(a \div 2, b \div 2)

RECURSIVE Popcount(_)
Popcount(a) == IF a = 0 THEN 0 ELSE (a % 2) + Popcount(a \div 2)

\* a uint64_t: four 16-bit limbs, least significant first
U64(l0, l1, l2, l3) == <<l0, l1, l2, l3>>
U64Zero == <<0, 0, 0, 0>>
U64OfInt(n) == <<n % 65536, n \div 65536, 0, 0>>

\* static_cast<uint32_t>(v) of a uint64_t: the low 32 bits
ToU32(v) == v[1] + 65536 * v[2]

\* __builtin_popcount takes an unsigned int: the argument is cut to 32 bits
builtin_popcount(v) == Popcount(v[1]) + Popcount(v[2])

\* 1UL << n stored into a uint32_t field
Shl1(n) == IF n >= 32 THEN 0 ELSE 2 ^ n

\* the last matching entry instead of the first
LastOf(S) == CHOOSE m \in S : \A n \in S : m >= n

\* the entry a range-for over the table reaches first
Min(S) == CHOOSE m \in S : \A n \in S : m <= n

----------------------------------------------------------------------------
(* The product table. *)

MASK_OLD == \HFFFF
\* the new mask with its low digit dropped
MASK_NEW_high_digit == \HF000

MASK_NEW == \HF00F

UnknownGpu == "Unknown gpu_id"

get_num_ee_g31(core_count, core_features, thread_features) ==
    IF core_count = 1 /\ BitAnd(thread_features, \HFFFF) = \H2000 THEN 1 ELSE 2

get_num_ee_g51(core_count, core_features, thread_features) ==
    IF core_count = 1 /\ BitAnd(thread_features, \HFFFF) = \H2000 THEN 1 ELSE 3

get_num_ee_g52(core_count, core_features, thread_features) ==
    BitAnd(core_features, \HF)

get_num_ee_g310_g510(core_count, core_features, thread_features) ==
    IF BitAnd(core_features, \HF) <= 1 THEN 1 ELSE 2

\* the std::function members of product_entry, as a closed set of tags
Call(fn, core_count, core_features, thread_features) ==
    CASE fn = "get_num_1" -> 1
      [] fn = "get_num_2" -> 2
      [] fn = "get_num_3" -> 3
      [] fn = "get_num_4" -> 4
      [] fn = "get_num_8" -> 8
      [] fn = "get_num_ee_g31" -> get_num_ee_g31(core_count, core_features, thread_features)
      [] fn = "get_num_ee_g51" -> get_num_ee_g51(core_count, core_features, thread_features)
      [] fn = "get_num_ee_g52" -> get_num_ee_g52(core_count, core_features, thread_features)
      [] fn = "get_num_ee_g310_g510" -> get_num_ee_g310_g510(core_count, core_features, thread_features)

product_entry(id, mask, min_cores, name, architecture, fma, texels, pixels, engines) ==
    [id |-> id, mask |-> mask, min_cores |-> min_cores, name |-> name,
     architecture |-> architecture, fp32_fmas_per_engine |-> fma,
     get_num_texels |-> texels, get_num_pixels |-> pixels,
     get_num_exec_engines |-> engines]

PRODUCT_VERSIONS == <<
    product_entry(\H6956, MASK_OLD,  1, "Mali-T600", "Midgard",  4, "get_num_1", "get_num_1", "get_num_2"),
    product_entry(\H0620, MASK_OLD,  1, "Mali-T620", "Midgard",  4, "get_num_1", "get_num_1", "get_num_2"),
    product_entry(\H0720, MASK_OLD,  1, "Mali-T720", "Midgard",  4, "get_num_1", "get_num_1", "get_num_1"),
    product_entry(\H0750, MASK_OLD,  1, "Mali-T760", "Midgard",  4, "get_num_1", "get_num_1", "get_num_2"),
    product_entry(\H0820, MASK_OLD,  1, "Mali-T820", "Midgard",  4, "get_num_1", "get_num_1", "get_num_1"),
    product_entry(\H0830, MASK_OLD,  1, "Mali-T830", "Midgard",  4, "get_num_1", "get_num_1", "get_num_2"),
    product_entry(\H0860, MASK_OLD,  1, "Mali-T860", "Midgard",  4, "get_num_1", "get_num_1", "get_num_2"),
    product_entry(\H0880, MASK_OLD,  1, "Mali-T880", "Midgard",  4, "get_num_1", "get_num_1", "get_num_3"),
    product_entry(\H6000, MASK_NEW,  1, "Mali-G71", "Bifrost",  4, "get_num_1", "get_num_1", "get_num_3"),
    product_entry(\H6001, MASK_NEW,  1, "Mali-G72", "Bifrost",  4, "get_num_1", "get_num_1", "get_num_3"),
    product_entry(\H7000, MASK_NEW,  1, "Mali-G51", "Bifrost",  4, "get_num_2", "get_num_2", "get_num_ee_g51"),
    product_entry(\H7001, MASK_NEW,  1, "Mali-G76", "Bifrost",  8, "get_num_2", "get_num_2", "get_num_3"),
    product_entry(\H7002, MASK_NEW,  1, "Mali-G52", "Bifrost",  8, "get_num_2", "get_num_2", "get_num_ee_g52"),
    product_entry(\H7003, MASK_NEW,  1, "Mali-G31", "Bifrost",  4, "get_num_2", "get_num_2", "get_num_ee_g31"),
    product_entry(\H9000, MASK_NEW,  1, "Mali-G77", "Valhall", 16, "get_num_4", "get_num_2", "get_num_2"),
    product_entry(\H9001, MASK_NEW,  1, "Mali-G57", "Valhall", 16, "get_num_4", "get_num_2", "get_num_2"),
    product_entry(\H9003, MASK_NEW,  1, "Mali-G57", "Valhall", 16, "get_num_4", "get_num_2", "get_num_2"),
    product_entry(\H9004, MASK_NEW,  1, "Mali-G68", "Valhall", 16, "get_num_4", "get_num_2", "get_num_2"),
    product_entry(\H9002, MASK_NEW,  1, "Mali-G78", "Valhall", 16, "get_num_4", "get_num_2", "get_num_2"),
    product_entry(\H9005, MASK_NEW,  1, "Mali-G78AE", "Valhall", 16, "get_num_4", "get_num_2", "get_num_2"),
    product_entry(\HA002, MASK_NEW,  1, "Mali-G710", "Valhall", 32, "get_num_8", "get_num_4", "get_num_2"),
    product_entry(\HA007, MASK_NEW,  1, "Mali-G610", "Valhall", 32, "get_num_8", "get_num_4", "get_num_2"),
    product_entry(\HA003, MASK_NEW,  1, "Mali-G510", "Valhall", 32, "get_num_8", "get_num_4", "get_num_ee_g310_g510"),
    product_entry(\HA004, MASK_NEW,  1, "Mali-G310", "Valhall", 32, "get_num_8", "get_num_4", "get_num_ee_g310_g510"),
    product_entry(\HB002, MASK_NEW, 10, "Immortalis-G715", "Valhall", 64, "get_num_8", "get_num_4", "get_num_2"),
    product_entry(\HB003, MASK_NEW, 10, "Immortalis-G715", "Valhall", 64, "get_num_8", "get_num_4", "get_num_2"),
    product_entry(\HB002, MASK_NEW,  7, "Mali-G715", "Valhall", 64, "get_num_8", "get_num_4", "get_num_2"),
    product_entry(\HB003, MASK_NEW,  7, "Mali-G715", "Valhall", 64, "get_num_8", "get_num_4", "get_num_2"),
    product_entry(\HB002, MASK_NEW,  1, "Mali-G615", "Valhall", 64, "get_num_8", "get_num_4", "get_num_2"),
    product_entry(\HB003, MASK_NEW,  1, "Mali-G615", "Valhall", 64, "get_num_8", "get_num_4", "get_num_2") >>

\* indices of the entries whose pattern matches under the entry's own mask
IdMatches(gpu_id) ==
    { i \in 1..Len(PRODUCT_VERSIONS) :
        BitAnd(gpu_id, PRODUCT_VERSIONS[i].mask) = PRODUCT_VERSIONS[i].id }

\* ... and whose min_cores threshold the core count reaches
Matches(gpu_id, core_count) ==
    { i \in IdMatches(gpu_id) : core_count >= PRODUCT_VERSIONS[i].min_cores }

\* an identifier no entry matches comes back shifted down by one digit
get_gpu_id_shifted(gpu_id) ==
    IF IdMatches(gpu_id) = {} THEN gpu_id \div 16
    ELSE BitAnd(gpu_id, PRODUCT_VERSIONS[Min(IdMatches(gpu_id))].mask)

get_gpu_id(gpu_id) ==
    IF IdMatches(gpu_id) = {} THEN gpu_id
    ELSE BitAnd(gpu_id, PRODUCT_VERSIONS[Min(IdMatches(gpu_id))].mask)

get_gpu_name(gpu_id, core_count) ==
    IF Matches(gpu_id, core_count) = {} THEN UnknownGpu
    ELSE PRODUCT_VERSIONS[Min(Matches(gpu_id, core_count))].name

get_architecture_name(gpu_id) ==
    IF IdMatches(gpu_id) = {} THEN UnknownGpu
    ELSE PRODUCT_VERSIONS[Min(IdMatches(gpu_id))].architecture

get_num_exec_engines(gpu_id, core_count, core_features, thread_features) ==
    IF Matches(gpu_id, core_count) = {} THEN 0
    ELSE Call(PRODUCT_VERSIONS[Min(Matches(gpu_id, core_count))].get_num_exec_engines,
              core_count, core_features, thread_features)

\* the per-engine rate returned without the engine count
get_num_fp32_fmas_per_engine(gpu_id, core_count, core_features, thread_features) ==
    IF Matches(gpu_id, core_count) = {} THEN 0
    ELSE PRODUCT_VERSIONS[Min(Matches(gpu_id, core_count))].fp32_fmas_per_engine

get_num_fp32_fmas(gpu_id, core_count, core_features, thread_features) ==
    IF Matches(gpu_id, core_count) = {} THEN 0
    ELSE LET entry == PRODUCT_VERSIONS[Min(Matches(gpu_id, core_count))]
         IN  entry.fp32_fmas_per_engine *
             Call(entry.get_num_exec_engines, core_count, core_features, thread_features)

get_num_texels(gpu_id, core_count, core_features, thread_features) ==
    IF Matches(gpu_id, core_count) = {} THEN 0
    ELSE Call(PRODUCT_VERSIONS[Min(Matches(gpu_id, core_count))].get_num_texels,
              core_count, core_features, thread_features)

get_num_pixels(gpu_id, core_count, core_features, thread_features) ==
    IF Matches(gpu_id, core_count) = {} THEN 0
    ELSE Call(PRODUCT_VERSIONS[Min(Matches(gpu_id, core_count))].get_num_pixels,
              core_count, core_features, thread_features)

----------------------------------------------------------------------------
(* The driver side: what the kernel may answer. *)

EPERM == 1
EINVAL == 22
\* errno values an ioctl may leave: none, EPERM, EINVAL, ENOTTY
DriverErrnos == {0, EPERM, EINVAL, 25}

\* (major, minor) pairs of a version_check_t reply
VersionPairs == {0, 1, 10, 11} \X (0..MaxMinor)

base_max_coherent_groups == 16

\* uk_gpuprops_t as the PreEpoch driver may fill it
PreProps ==
    { [product_id |-> id, log2_cache_size |-> 16, num_l2_slices |-> sl,
       l2_features |-> 6 * 16777216, thread_features |-> tf,
       num_groups |-> 1, num_core_groups |-> n,
       group |-> [i \in 1..base_max_coherent_groups |->
                    IF i = 1 THEN U64OfInt(m1) ELSE IF i = 2 THEN m2 ELSE U64Zero]] :
      id \in {\H0750, \H6221, \H7000, \H7002, \HFFFF}, sl \in {1, 2},
      tf \in {0, \H2000}, n \in 0..MaxCoreGroups,
      m1 \in {\H1, \HFF}, m2 \in {U64Zero, U64(1, 0, 1, 0)} }

\* what a read past the end of group[] may yield
Garbage == {U64Zero, U64OfInt(1)}

\* the product_id record the PostEpoch driver opens the buffer with, if any
DriverProducts ==
    { <<>>,
      << <<1, 2, U64OfInt(\H7002)>> >>,     \* product_id: Mali-G52
      << <<1, 2, U64OfInt(\HB002)>> >>,     \* product_id: G615 / G715
      << <<1, 2, U64OfInt(\HFFFF)>> >> }    \* product_id: no table entry

\* records <<id, size code, value>> the PostEpoch driver may put after it
DriverRecords ==
    { <<257, 2, U64OfInt(\H0750)>>,          \* an id outside the enumeration
      <<99, 1, U64OfInt(5)>>,                \* an id outside the enumeration
      <<15, 0, U64OfInt(2)>>,                \* l2_num_l2_slices
      <<30, 2, U64OfInt(4)>>,                \* raw_core_features
      <<62, 2, U64OfInt(1)>>,                \* coherency_num_core_groups: 1
      <<62, 2, U64OfInt(5)>>,                \* coherency_num_core_groups: 5
      <<64, 3, U64OfInt(\H3)>>,              \* coherency_group_0
      <<65, 3, U64OfInt(\H7F)>>,             \* coherency_group_1
      <<66, 3, U64(1, 0, 1, 0)>> }           \* coherency_group_2, one bit above 31

\* sizeof of the type a gpuprop_size code selects
SizeOf(code) == CASE code = 0 -> 1 [] code = 1 -> 2 [] code = 2 -> 4 [] code = 3 -> 8

\* the n low bytes of a value, little-endian
LEBytes(v, n) ==
    [b \in 1..n |-> (v[((b - 1) \div 2) + 1] \div (IF (b - 1) % 2 = 0 THEN 1 ELSE 256)) % 256]

\* one record on the wire: 4-byte header (id << 2 | size code), then the value
Pack(rec) == LEBytes(U64OfInt(rec[1] * 4 + rec[2]), 4) \o LEBytes(rec[3], SizeOf(rec[2]))

RECURSIVE PackAll(_)
PackAll(s) == IF s = <<>> THEN <<>> ELSE Pack(Head(s)) \o PackAll(Tail(s))

Streams ==
    { p \o t : p \in DriverProducts,
               t \in UNION { [1..n -> DriverRecords] : n \in 0..MaxRecs } }

\* the buffers the driver may return for a stream: whole, or cut short
Buffers(s) ==
    LET bytes == PackAll(s)
    IN  { SubSeq(bytes, 1, Len(bytes) - c) : c \in { k \in 0..MaxCut : k <= Len(bytes) } }

----------------------------------------------------------------------------
(* prop_decoder *)

ByteAt(buf, o) == IF o < Len(buf) THEN buf[o + 1] ELSE 0

\* read_bytes without the test of the remaining size
read_bytes_unchecked(buf, data, sz, n) ==
    [success |-> TRUE,
     ret |-> [k \in 1..4 |->
                (IF 2 * k - 2 < n THEN ByteAt(buf, data + 2 * k - 2) ELSE 0) +
                256 * (IF 2 * k - 1 < n THEN ByteAt(buf, data + 2 * k - 1) ELSE 0)],
     data |-> data + n, size |-> sz - n,
     reads |-> data .. (data + n - 1)]

\* read_bytes<T> that returns the bytes and leaves the position where it was
read_bytes_no_advance(buf, data, sz, n) ==
    IF sz < n
    THEN [success |-> FALSE, ret |-> U64Zero, data |-> data, size |-> sz, reads |-> {}]
    ELSE [success |-> TRUE,
          ret |-> [k \in 1..4 |->
                     (IF 2 * k - 2 < n THEN ByteAt(buf, data + 2 * k - 2) ELSE 0) +
                     256 * (IF 2 * k - 1 < n THEN ByteAt(buf, data + 2 * k - 1) ELSE 0)],
          data |-> data, size |-> sz,
          reads |-> data .. (data + n - 1)]

\* read_bytes<T> with sizeof(T) = n
read_bytes(buf, data, sz, n) ==
    IF sz < n
    THEN [success |-> FALSE, ret |-> U64Zero, data |-> data, size |-> sz, reads |-> {}]
    ELSE [success |-> TRUE,
          ret |-> [k \in 1..4 |->
                     (IF 2 * k - 2 < n THEN ByteAt(buf, data + 2 * k - 2) ELSE 0) +
                     256 * (IF 2 * k - 1 < n THEN ByteAt(buf, data + 2 * k - 1) ELSE 0)],
          data |-> data + n, size |-> sz - n,
          reads |-> data .. (data + n - 1)]

\* the gpuprop_code enumerators
prop_codes == {1, 13, 14, 15, 18, 21, 29, 30, 56, 57, 58, 59, 60, 61, 62, 63, 64, 65, 66, 67, 82}

\* static_cast to gpuprop_code, an enum over uint8_t
to_prop_id(n) == n % 256

to_prop_metadata(v) == <<to_prop_id(v \div 4), BitAnd(v, 3)>>

next(buf, data, sz) ==
    LET h == read_bytes(buf, data, sz, 4)
    IN  IF ~h.success
        THEN [success |-> FALSE, id |-> 0, value |-> U64Zero,
              data |-> h.data, size |-> h.size, reads |-> h.reads]
        ELSE LET p == to_prop_metadata(ToU32(h.ret))
                 v == read_bytes(buf, h.data, h.size, SizeOf(p[2]))
             IN  [success |-> v.success, id |-> p[1], value |-> v.ret,
                  data |-> v.data, size |-> v.size, reads |-> h.reads \cup v.reads]

\* the switch of decode, on the state <<info, raw_core_features, raw_thread_features>>
decode_switch(st, id, value) ==
    CASE id = 1  -> [st EXCEPT !.info.gpu_id = ToU32(value)]
      [] id = 14 -> [st EXCEPT !.info.num_l2_bytes = Shl1(ToU32(value))]
      [] id = 15 -> [st EXCEPT !.info.num_l2_slices = ToU32(value)]
      [] id = 29 -> [st EXCEPT !.info.num_bus_bits = Shl1(value[2] \div 256)]
      [] id = 30 -> [st EXCEPT !.raw_core_features = value]
      [] id = 59 -> [st EXCEPT !.raw_thread_features = value]
      [] id \in {64, 65, 66, 67} ->
            [st EXCEPT !.info.num_shader_cores = @ + builtin_popcount(value)]
      [] OTHER -> st

\* the metrics of decode with the FP16 rate left at the FP32 rate
decode_metrics_fp16_as_fp32(info, core_features, thread_features) ==
    LET engines == get_num_exec_engines(info.gpu_id, info.num_shader_cores,
                                        core_features, thread_features)
        fp32 == get_num_fp32_fmas(info.gpu_id, info.num_shader_cores,
                                  core_features, thread_features)
    IN  IF engines = 0
        THEN [info EXCEPT !.num_exec_engines = engines]
        ELSE [info EXCEPT
                !.num_exec_engines = engines,
                !.num_fp32_fmas_per_cy = fp32,
                !.num_fp16_fmas_per_cy = fp32,
                !.num_texels_per_cy = get_num_texels(info.gpu_id, info.num_shader_cores,
                                                     core_features, thread_features),
                !.num_pixels_per_cy = get_num_pixels(info.gpu_id, info.num_shader_cores,
                                                     core_features, thread_features)]

\* the part of decode after the loop that fills the metrics
decode_metrics(info, core_features, thread_features) ==
    LET engines == get_num_exec_engines(info.gpu_id, info.num_shader_cores,
                                        core_features, thread_features)
        fp32 == get_num_fp32_fmas(info.gpu_id, info.num_shader_cores,
                                  core_features, thread_features)
    IN  IF engines = 0
        THEN [info EXCEPT !.num_exec_engines = engines]
        ELSE [info EXCEPT
                !.num_exec_engines = engines,
                !.num_fp32_fmas_per_cy = fp32,
                !.num_fp16_fmas_per_cy = fp32 * 2,
                !.num_texels_per_cy = get_num_texels(info.gpu_id, info.num_shader_cores,
                                                     core_features, thread_features),
                !.num_pixels_per_cy = get_num_pixels(info.gpu_id, info.num_shader_cores,
                                                     core_features, thread_features)]

\* return value of decode once the loop has ended
decode_result(info) == info.num_exec_engines # 0

----------------------------------------------------------------------------
(* instance *)

NullStr == "nullptr"

\* gpuinfo info_ {}
gpuinfo_zero ==
    [gpu_name |-> NullStr, architecture_name |-> NullStr, gpu_id |-> 0,
     num_shader_cores |-> 0, num_l2_slices |-> 0, num_l2_bytes |-> 0,
     num_bus_bits |-> 0, num_exec_engines |-> 0, num_fp32_fmas_per_cy |-> 0,
     num_fp16_fmas_per_cy |-> 0, num_texels_per_cy |-> 0, num_pixels_per_cy |-> 0]

\* kbase_pre_r21::uk_gpuprops_t props {}
uk_gpuprops_zero ==
    [product_id |-> 0, log2_cache_size |-> 0, num_l2_slices |-> 0,
     l2_features |-> 0, thread_features |-> 0, num_groups |-> 0,
     num_core_groups |-> 0,
     group |-> [i \in 1..base_max_coherent_groups |-> U64Zero]]

\* ::close(fd)
close(f) == [state |-> "closed", closes |-> f.closes + 1]

\* a destructor that forgets the descriptor
destructor_leak(f) == f

\* instance::~instance
destructor(f) == close(f)

\* is_set looking at the major number only
is_set_major_only(v) == v[1] # 0

\* version_check_t::is_set
is_set(v) == v[1] # 0 \/ v[2] # 0

\* acceptance rules with the floor misplaced
is_supported_minor_1(major, minor) == (major > 10) \/ ((major = 10) /\ (minor >= 1))
is_supported_above_10_2(major, minor) == (major > 10) \/ ((major = 10) /\ (minor > 2))

is_supported(major, minor) == (major > 10) \/ ((major = 10) /\ (minor >= 2))

\* a set_flags that reports success whatever errno holds
flags_ok_any(e) == TRUE

\* a set_flags that tolerates no error at all
flags_ok_strict(e) == e = 0

\* the return statement of set_flags
flags_ok(e) == e = 0 \/ e = EINVAL \/ e = EPERM

\* the version floor applied to the command-stream reply as well
csf_supported_with_floor(v) == is_set(v) /\ is_supported(v[1], v[2])

\* the return statement of check_version after the command-stream probe
csf_supported(v) == is_set(v)

\* a create that hands out the object whatever valid_ says
create_return_unchecked(valid) == "instance"

\* the tail of create: nullptr unless the instance is valid
create_return(valid) == IF valid THEN "instance" ELSE "nullptr"

\* errno after an ioctl that reported error e (0: none)
after_ioctl(old, e) == IF e # 0 THEN e ELSE old

\* a step that leaves errno as the earlier requests left it
errno_kept(old) == old

\* errno = 0 ahead of a request
errno_cleared(old) == 0

\* a test of errno that never sees an error
errno_set_never(e) == FALSE

\* if (errno) after a get_gpuprops call of init_props_post_r21
errno_set(e) == e # 0

\* payloads of the flags request taken from the PostEpoch dialect always
set_flags_request_post_r21(iface) == "post_r21::set_flags"

\* the request set_flags issues under the negotiated dialect
set_flags_request(iface) ==
    IF iface = "pre_r21" THEN "pre_r21::set_flags" ELSE "post_r21::set_flags"

Init ==
    /\ pc = "create"
    /\ fd = [state |-> "none", closes |-> 0]
    /\ result = "pending"
    /\ failure = "none"
    /\ valid_ = TRUE
    /\ iface_ = "pre_r21"
    /\ info_ = gpuinfo_zero
    /\ errno \in {0, 25}
    /\ cv = "pending"
    /\ pre_r21 = <<0, 0>>
    /\ post_r21 = <<0, 0>>
    /\ ioctls = <<>>
    /\ status = 0
    /\ stale_errno = FALSE
    /\ props = uk_gpuprops_zero
    /\ groupReads = {}
    /\ size = 0
    /\ stream = <<>>
    /\ blob = <<>>
    /\ buffer_ = <<>>
    /\ data_ = 0
    /\ size_ = 0
    /\ reads = {}
    /\ raw_core_features = U64Zero
    /\ raw_thread_features = U64Zero
    /\ fields = <<>>

decoderVars == <<buffer_, data_, size_, reads, raw_core_features,
                 raw_thread_features, fields>>
preVars == <<props, groupReads>>
versionVars == <<pre_r21, post_r21>>
driverVars == <<stream, blob>>

\* a constructor that repeats the failed step instead of returning
CtorReturns_retrying(v, cause) ==
    /\ valid_' = v
    /\ result' = IF v THEN create_return(v) ELSE result
    /\ failure' = IF v THEN cause ELSE failure
    /\ fd' = fd
    /\ pc' = IF v THEN "alive" ELSE pc

\* the constructor returns with valid_ = v; create hands out the object or,
\* when it is not valid, lets the unique_ptr destroy it and returns nullptr
CtorReturns(v, cause) ==
    /\ valid_' = v
    /\ result' = create_return(v)
    /\ failure' = cause
    /\ fd' = IF create_return(v) = "nullptr" THEN destructor(fd) ELSE fd
    /\ pc' = IF create_return(v) = "nullptr" THEN "done" ELSE "alive"

\* create: ::open
Open ==
    /\ pc = "create"
    /\ \E opened \in BOOLEAN :
         IF opened
         THEN /\ fd' = [fd EXCEPT !.state = "open"]
              /\ pc' = "fstat"
              /\ UNCHANGED <<result, failure>>
         ELSE /\ result' = "nullptr"
              /\ failure' = "open"
              /\ pc' = "done"
              /\ fd' = fd
    /\ UNCHANGED <<valid_, iface_, info_, errno, cv, ioctls, status, stale_errno, size>>
    /\ UNCHANGED preVars
    /\ UNCHANGED versionVars
    /\ UNCHANGED decoderVars
    /\ UNCHANGED driverVars

\* create: fstat and the character device test
Fstat ==
    /\ pc = "fstat"
    /\ \E fs_result \in {-1, 0}, is_chr \in BOOLEAN :
         IF fs_result < 0 \/ ~is_chr
         THEN /\ fd' = close(fd)
              /\ result' = "nullptr"
              /\ failure' = "not_chr"
              /\ pc' = "done"
         ELSE /\ pc' = "probe_pre_r21"
              /\ UNCHANGED <<fd, result, failure>>
    /\ UNCHANGED <<valid_, iface_, info_, errno, cv, ioctls, status, stale_errno, size>>
    /\ UNCHANGED preVars
    /\ UNCHANGED versionVars
    /\ UNCHANGED decoderVars
    /\ UNCHANGED driverVars

\* a version probe's answer: the errno it leaves and the pair it wrote
VersionReplies == { r \in DriverErrnos \X VersionPairs : r[1] # 0 => ~is_set(r[2]) }

\* check_version, first probe
ProbePreR21 ==
    /\ pc = "probe_pre_r21"
    /\ iface_' = "pre_r21"
    /\ \E r \in VersionReplies :
         /\ ioctls' = Append(ioctls, "pre_r21::version_check")
         /\ pre_r21' = r[2]
         /\ post_r21' = post_r21
         /\ errno' = after_ioctl(errno, r[1])
         /\ status' = r[1]
         /\ stale_errno' = (errno # 0)
         /\ IF is_set(r[2])
            THEN IF is_supported(r[2][1], r[2][2])
                 THEN /\ cv' = "true"
                      /\ pc' = "set_flags"
                      /\ UNCHANGED <<valid_, result, failure, fd>>
                 ELSE /\ cv' = "false"
                      /\ CtorReturns(FALSE, "version")
            ELSE /\ pc' = "probe_post_r21_jm"
                 /\ UNCHANGED <<cv, valid_, result, failure, fd>>
    /\ UNCHANGED <<info_, size>>
    /\ UNCHANGED preVars
    /\ UNCHANGED decoderVars
    /\ UNCHANGED driverVars

\* check_version, second probe
ProbePostR21JM ==
    /\ pc = "probe_post_r21_jm"
    /\ iface_' = "post_r21"
    /\ \E r \in VersionReplies :
         /\ ioctls' = Append(ioctls, "post_r21::version_check_jm")
         /\ post_r21' = r[2]
         /\ pre_r21' = pre_r21
         /\ errno' = after_ioctl(errno, r[1])
         /\ status' = r[1]
         /\ stale_errno' = (errno # 0)
         /\ IF is_set(r[2])
            THEN IF is_supported(r[2][1], r[2][2])
                 THEN /\ cv' = "true"
                      /\ pc' = "set_flags"
                      /\ UNCHANGED <<valid_, result, failure, fd>>
                 ELSE /\ cv' = "false"
                      /\ CtorReturns(FALSE, "version")
            ELSE /\ pc' = "probe_post_r21_csf"
                 /\ UNCHANGED <<cv, valid_, result, failure, fd>>
    /\ UNCHANGED <<info_, size>>
    /\ UNCHANGED preVars
    /\ UNCHANGED decoderVars
    /\ UNCHANGED driverVars

\* check_version, third probe
ProbePostR21CSF ==
    /\ pc = "probe_post_r21_csf"
    /\ \E r \in VersionReplies :
         /\ ioctls' = Append(ioctls, "post_r21::version_check_csf")
         /\ post_r21' = r[2]
         /\ pre_r21' = pre_r21
         /\ errno' = after_ioctl(errno, r[1])
         /\ status' = r[1]
         /\ stale_errno' = (errno # 0)
         /\ IF csf_supported(r[2])
            THEN /\ cv' = "true"
                 /\ pc' = "set_flags"
                 /\ UNCHANGED <<valid_, result, failure, fd>>
            ELSE /\ cv' = "false"
                 /\ CtorReturns(FALSE, "version")
    /\ UNCHANGED <<iface_, info_, size>>
    /\ UNCHANGED preVars
    /\ UNCHANGED decoderVars
    /\ UNCHANGED driverVars

\* set_flags; the locals of check_version are gone once it has returned
SetFlags ==
    /\ pc = "set_flags"
    /\ pre_r21' = <<0, 0>>
    /\ post_r21' = <<0, 0>>
    /\ ioctls' = Append(ioctls, set_flags_request(iface_))
    /\ \E e \in DriverErrnos :
         /\ errno' = after_ioctl(errno_cleared(errno), e)
         /\ status' = e
         /\ stale_errno' = (errno # 0)
         /\ IF flags_ok(after_ioctl(errno_cleared(errno), e))
            THEN /\ pc' = IF iface_ = "pre_r21" THEN "init_props_pre_r21"
                                                ELSE "init_props_post_r21"
                 /\ UNCHANGED <<valid_, result, failure, fd>>
            ELSE CtorReturns(FALSE, "flags")
    /\ UNCHANGED <<iface_, info_, cv, size>>
    /\ UNCHANGED preVars
    /\ UNCHANGED decoderVars
    /\ UNCHANGED driverVars

\* group[i] of the returned structure; past the array the read yields garbage
group_at(p, i, garbage) ==
    IF i < base_max_coherent_groups THEN p.group[i + 1] ELSE garbage[i]

\* the indices the core-count loop of init_props_pre_r21 reads
core_loop_indices(p) == 0 .. (p.num_core_groups - 1)

RECURSIVE sum_cores(_, _, _)
sum_cores(p, n, garbage) ==
    IF n = 0 THEN 0
    ELSE sum_cores(p, n - 1, garbage) + builtin_popcount(group_at(p, n - 1, garbage))

\* whether init_props_pre_r21 reports success for the record it filled
pre_r21_result(info) == TRUE

\* the assignments of init_props_pre_r21 once the ioctl has succeeded
pre_r21_info(info, p, cores) ==
    LET fp32 == get_num_fp32_fmas(p.product_id, cores, 0, 0)
    IN  [info EXCEPT
           !.gpu_id = p.product_id,
           !.num_l2_bytes = Shl1(p.log2_cache_size),
           !.num_l2_slices = p.num_l2_slices,
           !.num_bus_bits = Shl1(p.l2_features \div 16777216),
           !.num_shader_cores = cores,
           !.num_exec_engines = get_num_exec_engines(p.product_id, cores, 0, 0),
           !.num_fp32_fmas_per_cy = fp32,
           !.num_fp16_fmas_per_cy = fp32 * 2,
           !.num_texels_per_cy = get_num_texels(p.product_id, cores, 0, 0),
           !.num_pixels_per_cy = get_num_pixels(p.product_id, cores, 0, 0)]

\* init_props_pre_r21
InitPropsPreR21 ==
    /\ pc = "init_props_pre_r21"
    /\ ioctls' = Append(ioctls, "pre_r21::get_gpuprops")
    /\ \E e \in DriverErrnos :
         /\ errno' = after_ioctl(errno_cleared(errno), e)
         /\ status' = e
         /\ stale_errno' = (errno # 0)
         /\ IF after_ioctl(errno_cleared(errno), e) # 0
            THEN /\ CtorReturns(FALSE, "props")
                 /\ UNCHANGED <<info_, props, groupReads>>
            ELSE \E p \in PreProps :
                 \E garbage \in [ { i \in core_loop_indices(p) :
                                      i >= base_max_coherent_groups } -> Garbage ] :
                   /\ props' = p
                   /\ groupReads' = core_loop_indices(p)
                   /\ info_' = pre_r21_info(info_, p, sum_cores(p, p.num_core_groups, garbage))
                   /\ IF pre_r21_result(info_')
                      THEN /\ pc' = "init_props_cleanup"
                           /\ UNCHANGED <<valid_, result, failure, fd>>
                      ELSE CtorReturns(FALSE, "props")
    /\ UNCHANGED <<iface_, cv, size>>
    /\ UNCHANGED versionVars
    /\ UNCHANGED decoderVars
    /\ UNCHANGED driverVars

\* init_props_post_r21: the size probe
PostR21SizeProbe ==
    /\ pc = "init_props_post_r21"
    /\ ioctls' = Append(ioctls, "post_r21::get_gpuprops")
    /\ \E e \in DriverErrnos :
         /\ errno' = after_ioctl(errno_cleared(errno), e)
         /\ status' = e
         /\ stale_errno' = (errno # 0)
         /\ IF errno_set(after_ioctl(errno_cleared(errno), e))
            THEN /\ CtorReturns(FALSE, "props")
                 /\ size' = -1
                 /\ UNCHANGED driverVars
            ELSE /\ \E s \in Streams : \E b \in Buffers(s) :
                      /\ stream' = s
                      /\ blob' = b
                      /\ size' = Len(b)
                 /\ pc' = "post_r21_fill"
                 /\ UNCHANGED <<valid_, result, failure, fd>>
    /\ UNCHANGED <<iface_, info_, cv>>
    /\ UNCHANGED preVars
    /\ UNCHANGED versionVars
    /\ UNCHANGED decoderVars

\* init_props_post_r21: the buffer fill and the construction of the decoder
PostR21Fill ==
    /\ pc = "post_r21_fill"
    /\ ioctls' = Append(ioctls, "post_r21::get_gpuprops")
    /\ \E e \in DriverErrnos :
         /\ errno' = after_ioctl(errno, e)
         /\ status' = e
         /\ stale_errno' = (errno # 0)
         /\ IF errno_set(after_ioctl(errno, e))
            THEN /\ CtorReturns(FALSE, "props")
                 /\ UNCHANGED <<buffer_, data_, size_>>
            ELSE /\ buffer_' = SubSeq(blob, 1, size)
                 /\ data_' = 0
                 /\ size_' = size
                 /\ pc' = "decode"
                 /\ UNCHANGED <<valid_, result, failure, fd>>
    /\ UNCHANGED <<iface_, info_, cv, size, reads, raw_core_features,
                   raw_thread_features, fields>>
    /\ UNCHANGED preVars
    /\ UNCHANGED versionVars
    /\ UNCHANGED driverVars

\* the loop condition of decode
decode_more(sz) == sz > 0

\* decode: one iteration of the loop
DecodeNext ==
    /\ pc = "decode"
    /\ decode_more(size_)
    /\ \E n \in {next(buffer_, data_, size_)} :
       \E st \in {decode_switch([info |-> info_, raw_core_features |-> raw_core_features,
                                raw_thread_features |-> raw_thread_features],
                               n.id, n.value)} :
           /\ data_' = n.data
           /\ size_' = n.size
           /\ reads' = reads \cup n.reads
           /\ IF ~n.success
              THEN /\ CtorReturns(FALSE, "props")
                   /\ UNCHANGED <<info_, raw_core_features, raw_thread_features, fields>>
              ELSE /\ fields' = Append(fields, <<n.id, n.value>>)
                   /\ info_' = st.info
                   /\ raw_core_features' = st.raw_core_features
                   /\ raw_thread_features' = st.raw_thread_features
                   /\ UNCHANGED <<pc, valid_, result, failure, fd>>
    /\ UNCHANGED <<iface_, errno, cv, ioctls, status, stale_errno, size, buffer_>>
    /\ UNCHANGED preVars
    /\ UNCHANGED versionVars
    /\ UNCHANGED driverVars

\* decode: after the loop
DecodeFinish ==
    /\ pc = "decode"
    /\ ~decode_more(size_)
    /\ info_' = decode_metrics(info_, ToU32(raw_core_features), ToU32(raw_thread_features))
    /\ IF decode_result(info_')
       THEN /\ pc' = "init_props_cleanup"
            /\ UNCHANGED <<valid_, result, failure, fd>>
       ELSE CtorReturns(FALSE, "props")
    /\ UNCHANGED <<iface_, errno, cv, ioctls, status, stale_errno, size>>
    /\ UNCHANGED preVars
    /\ UNCHANGED versionVars
    /\ UNCHANGED decoderVars
    /\ UNCHANGED driverVars

\* a cleanup that normalises the identifier only when the name was found
init_props_cleanup_gated(info) ==
    [info EXCEPT
       !.num_l2_bytes = info.num_l2_bytes * info.num_l2_slices,
       !.gpu_name = get_gpu_name(info.gpu_id, info.num_shader_cores),
       !.architecture_name = get_architecture_name(info.gpu_id),
       !.gpu_id = IF get_gpu_name(info.gpu_id, info.num_shader_cores) = UnknownGpu
                  THEN info.gpu_id ELSE get_gpu_id(info.gpu_id)]

\* the common cleanup of init_props
init_props_cleanup(info) ==
    [info EXCEPT
       !.num_l2_bytes = info.num_l2_bytes * info.num_l2_slices,
       !.gpu_name = get_gpu_name(info.gpu_id, info.num_shader_cores),
       !.architecture_name = get_architecture_name(info.gpu_id),
       !.gpu_id = get_gpu_id(info.gpu_id)]

\* init_props after a successful strategy; the constructor and create return
InitPropsCleanup ==
    /\ pc = "init_props_cleanup"
    /\ info_' = init_props_cleanup(info_)
    /\ CtorReturns(valid_, "none")
    /\ UNCHANGED <<iface_, errno, cv, ioctls, status, stale_errno, size>>
    /\ UNCHANGED preVars
    /\ UNCHANGED versionVars
    /\ UNCHANGED decoderVars
    /\ UNCHANGED driverVars

\* the caller drops the instance
Destroy ==
    /\ pc = "alive"
    /\ fd' = destructor(fd)
    /\ pc' = "done"
    /\ UNCHANGED <<result, failure, valid_, iface_, info_, errno, cv, ioctls, status, stale_errno, size>>
    /\ UNCHANGED preVars
    /\ UNCHANGED versionVars
    /\ UNCHANGED decoderVars
    /\ UNCHANGED driverVars

Next ==
    \/ Open
    \/ Fstat
    \/ ProbePreR21
    \/ ProbePostR21JM
    \/ ProbePostR21CSF
    \/ SetFlags
    \/ InitPropsPreR21
    \/ PostR21SizeProbe
    \/ PostR21Fill
    \/ DecodeNext
    \/ DecodeFinish
    \/ InitPropsCleanup
    \/ Destroy

Spec == Init /\ [][Next]_vars

----------------------------------------------------------------------------
(* The lookup functions over the product table, applied to arguments of
   their own. *)

\* gpu_id arguments: every pattern of the table as it stands, patterns with
\* bits set where the mask has none, and identifiers no entry matches
GpuIds ==
    { PRODUCT_VERSIONS[i].id : i \in 1..Len(PRODUCT_VERSIONS) } \cup
    { \H7112, \H6221, \HB7A2, \HBFF3, \H10750, \H17002 } \cup
    { 0, \H0751, \H8000, \HFFFF }

\* core_features and thread_features arguments
CoreFeatures == { 0, 1, 4, \H14 }
ThreadFeatures == { 0, \H2000 }

LookupInit ==
    /\ pc = "lookup"
    /\ fd = [state |-> "none", closes |-> 0]
    /\ result = "pending"
    /\ failure = "none"
    /\ valid_ = TRUE
    /\ iface_ = "pre_r21"
    /\ \E gpu_id \in GpuIds, core_count \in 0..MaxCores :
         /\ props = [uk_gpuprops_zero EXCEPT !.product_id = gpu_id]
         /\ info_ = [gpuinfo_zero EXCEPT !.gpu_id = gpu_id, !.num_shader_cores = core_count]
    /\ errno = 0
    /\ cv = "pending"
    /\ pre_r21 = <<0, 0>>
    /\ post_r21 = <<0, 0>>
    /\ ioctls = <<>>
    /\ status = 0
    /\ stale_errno = FALSE
    /\ groupReads = {}
    /\ size = 0
    /\ stream = <<>>
    /\ blob = <<>>
    /\ buffer_ = <<>>
    /\ data_ = 0
    /\ size_ = 0
    /\ reads = {}
    /\ raw_core_features \in { U64OfInt(f) : f \in CoreFeatures }
    /\ raw_thread_features \in { U64OfInt(f) : f \in ThreadFeatures }
    /\ fields = <<>>

\* every lookup function applied to <<gpu_id, core_count, features>>
lookup(info, core_features, thread_features) ==
    [info EXCEPT
       !.gpu_name = get_gpu_name(info.gpu_id, info.num_shader_cores),
       !.architecture_name = get_architecture_name(info.gpu_id),
       !.gpu_id = get_gpu_id(info.gpu_id),
       !.num_exec_engines = get_num_exec_engines(info.gpu_id, info.num_shader_cores,
                                                 core_features, thread_features),
       !.num_fp32_fmas_per_cy = get_num_fp32_fmas(info.gpu_id, info.num_shader_cores,
                                                  core_features, thread_features),
       !.num_texels_per_cy = get_num_texels(info.gpu_id, info.num_shader_cores,
                                            core_features, thread_features),
       !.num_pixels_per_cy = get_num_pixels(info.gpu_id, info.num_shader_cores,
                                            core_features, thread_features)]

Lookup ==
    /\ pc = "lookup"
    /\ info_' = lookup(info_, ToU32(raw_core_features), ToU32(raw_thread_features))
    /\ pc' = "looked_up"
    /\ UNCHANGED <<fd, result, failure, valid_, iface_, errno, cv, ioctls, status, stale_errno, size>>
    /\ UNCHANGED preVars
    /\ UNCHANGED versionVars
    /\ UNCHANGED <<buffer_, data_, size_, reads, raw_core_features,
                   raw_thread_features, fields>>
    /\ UNCHANGED driverVars

\* get_gpu_id applied to its own result
Renormalize ==
    /\ pc = "looked_up"
    /\ info_' = [info_ EXCEPT !.gpu_id = get_gpu_id(info_.gpu_id)]
    /\ pc' = "renormalized"
    /\ UNCHANGED <<fd, result, failure, valid_, iface_, errno, cv, ioctls, status, stale_errno, size>>
    /\ UNCHANGED preVars
    /\ UNCHANGED versionVars
    /\ UNCHANGED decoderVars
    /\ UNCHANGED driverVars

LookupNext ==
    \/ Lookup
    \/ Renormalize

SpecLookup == LookupInit /\ [][LookupNext]_vars

----------------------------------------------------------------------------
(* The loop of prop_decoder::decode, run on buffers of its own. *)

\* one record of each value width
DecodeRecords == { r \in DriverRecords : r[1] \in {15, 99, 30, 66} }

\* streams of these records after the product_id record of a Mali-G52
DecodeStreams ==
    { << <<1, 2, U64OfInt(\H7002)>> >> \o t :
        t \in UNION { [1..n -> DecodeRecords] : n \in 0..MaxRecs } }

\* the state in which init_props_post_r21 has constructed the decoder on the
\* buffer the driver filled: whole, or cut short
DecodeInit ==
    /\ pc = "decode"
    /\ fd = [state |-> "open", closes |-> 0]
    /\ result = "pending"
    /\ failure = "none"
    /\ valid_ = TRUE
    /\ iface_ = "post_r21"
    /\ info_ = gpuinfo_zero
    /\ errno = 0
    /\ cv = "true"
    /\ pre_r21 = <<0, 0>>
    /\ post_r21 = <<0, 0>>
    /\ ioctls = <<"pre_r21::version_check", "post_r21::version_check_jm",
                  "post_r21::set_flags", "post_r21::get_gpuprops",
                  "post_r21::get_gpuprops">>
    /\ status = 0
    /\ stale_errno = FALSE
    /\ props = uk_gpuprops_zero
    /\ groupReads = {}
    /\ stream \in DecodeStreams
    /\ blob \in Buffers(stream)
    /\ size = Len(blob)
    /\ buffer_ = blob
    /\ data_ = 0
    /\ size_ = Len(blob)
    /\ reads = {}
    /\ raw_core_features = U64Zero
    /\ raw_thread_features = U64Zero
    /\ fields = <<>>

DecodeLoop ==
    \/ DecodeNext
    \/ DecodeFinish

\* decode is straight-line code of one thread: once entered, the loop keeps
\* taking its next iteration and, when the condition fails, its exit
SpecDecode ==
    DecodeInit /\ [][DecodeLoop]_vars /\ WF_vars(DecodeNext) /\ WF_vars(DecodeFinish)

----------------------------------------------------------------------------
(* Properties. *)

Last(q) == q[Len(q)]
LastIoctl == IF ioctls = <<>> THEN "none" ELSE Last(ioctls)
NonZero(v) == v # <<0, 0>>
\* the accepted floor, as the specification words it
AtOrAboveFloor(v) == v[1] > 10 \/ (v[1] = 10 /\ v[2] >= 2)

\* C1: create returns nullptr whenever negotiation, the flags request or the
\* property retrieval failed, and an object it returns is valid and carries a
\* record the common cleanup has completed; a record filled halfway is never
\* behind a returned object.
C1_AllOrNothing ==
    /\ failure # "none" => result = "nullptr"
    /\ cv = "false" => result = "nullptr"
    /\ (LastIoctl \in {"pre_r21::set_flags", "post_r21::set_flags"}
          /\ errno \notin {0, EINVAL, EPERM}) => result = "nullptr"
    /\ (LastIoctl \in {"pre_r21::get_gpuprops", "post_r21::get_gpuprops"}
          /\ errno # 0) => result = "nullptr"
    /\ result = "instance" =>
          /\ valid_
          /\ cv = "true"
          /\ LastIoctl \in {"pre_r21::get_gpuprops", "post_r21::get_gpuprops"}
          /\ info_.gpu_name # NullStr
          /\ info_.architecture_name # NullStr

C1_Witness ==
    /\ result = "nullptr"
    /\ failure = "props"
    /\ info_.gpu_id # 0
    /\ info_.gpu_name = NullStr

\* C2: a descriptor that was opened is closed exactly once: it is closed when
\* create has returned nullptr and when the instance has been destroyed, it is
\* open while the instance lives, and close never runs twice.
C2_ClosedExactlyOnce ==
    /\ fd.closes <= 1
    /\ (result = "nullptr" /\ fd.state # "none") => (fd.state = "closed" /\ fd.closes = 1)
    /\ (pc = "done" /\ fd.state # "none") => (fd.state = "closed" /\ fd.closes = 1)
    /\ pc = "alive" => (fd.state = "open" /\ fd.closes = 0)

C2_Witness ==
    /\ result = "nullptr"
    /\ failure = "flags"
    /\ fd.state = "closed"
    /\ fd.closes = 1

\* C3: the version probes go out in the order PreEpoch, PostEpoch job-manager,
\* PostEpoch command-stream; each later probe is sent only when every earlier
\* reply was the zero pair, and the first non-zero reply fixes the dialect.
C3_ProbeOrder ==
    [][ /\ (ioctls' # ioctls /\ Last(ioctls') = "pre_r21::version_check")
             => ioctls = <<>>
        /\ (ioctls' # ioctls /\ Last(ioctls') = "post_r21::version_check_jm")
             => (ioctls = <<"pre_r21::version_check">> /\ ~NonZero(pre_r21))
        /\ (ioctls' # ioctls /\ Last(ioctls') = "post_r21::version_check_csf")
             => /\ ioctls = <<"pre_r21::version_check", "post_r21::version_check_jm">>
                /\ ~NonZero(pre_r21)
                /\ ~NonZero(post_r21)
        /\ (cv = "pending" /\ cv' # "pending")
             => /\ NonZero(pre_r21') => (iface_' = "pre_r21" /\ Len(ioctls') = 1)
                /\ ~NonZero(pre_r21') => iface_' = "post_r21"
                /\ (~NonZero(pre_r21') /\ Len(ioctls') = 2) => NonZero(post_r21')
      ]_vars

C3_Witness ==
    /\ ioctls = <<"pre_r21::version_check", "post_r21::version_check_jm",
                  "post_r21::version_check_csf">>
    /\ NonZero(post_r21)
    /\ cv = "true"
    /\ iface_ = "post_r21"

\* C4: a non-zero PreEpoch reply below the floor ends the negotiation: the
\* PreEpoch probe stays the only request ever issued and create returns nullptr.
C4_PreEpochBelowFloorIsFinal ==
    (NonZero(pre_r21) /\ ~AtOrAboveFloor(pre_r21)) =>
        /\ ioctls = <<"pre_r21::version_check">>
        /\ cv = "false"
        /\ result = "nullptr"
        /\ pc = "done"

C4_Witness ==
    /\ pre_r21 = <<10, 1>>
    /\ ioctls = <<"pre_r21::version_check">>
    /\ result = "nullptr"

\* C5: a non-zero reply to the PreEpoch probe or to the PostEpoch job-manager
\* probe is accepted iff major > 10 or (major = 10 and minor >= 2).
C5_AcceptanceRule ==
    /\ NonZero(pre_r21) => (cv # "pending" /\ (cv = "true" <=> AtOrAboveFloor(pre_r21)))
    /\ (LastIoctl = "post_r21::version_check_jm" /\ NonZero(post_r21)) =>
          (cv # "pending" /\ (cv = "true" <=> AtOrAboveFloor(post_r21)))
    /\ pre_r21 = <<10, 1>> => cv = "false"
    /\ pre_r21 \in {<<10, 2>>, <<11, 0>>} => cv = "true"

C5_Witness ==
    /\ LastIoctl = "post_r21::version_check_jm"
    /\ post_r21 = <<10, 2>>
    /\ cv = "true"
    /\ pc = "set_flags"

\* C6: after two zero replies the command-stream probe succeeds for every
\* non-zero pair, whatever its numbers, and fails iff its reply is zero too.
C6_CommandStreamNoFloor ==
    LastIoctl = "post_r21::version_check_csf" =>
        /\ ~NonZero(pre_r21)
        /\ cv # "pending"
        /\ cv = "true" <=> NonZero(post_r21)
        /\ cv = "false" <=> (result = "nullptr" /\ failure = "version")

C6_Witness ==
    /\ LastIoctl = "post_r21::version_check_csf"
    /\ post_r21 = <<1, 0>>
    /\ cv = "true"
    /\ pc = "set_flags"

\* C7: no instance that create returned has num_exec_engines = 0, under
\* either dialect.
C7_NoInstanceWithoutEngines ==
    result = "instance" => info_.num_exec_engines # 0

\* C8: the PreEpoch core-count loop reads only the slots 0..15 of group[].
C8_GroupReadsInBounds ==
    \A i \in groupReads : i < base_max_coherent_groups

\* whether the bytes from offset o on are whole records up to the buffer end
RECURSIVE WholeRecords(_, _)
WholeRecords(buf, o) ==
    IF o = Len(buf) THEN TRUE
    ELSE IF Len(buf) - o < 4 THEN FALSE
    ELSE IF Len(buf) - o - 4 < SizeOf(buf[o + 1] % 4) THEN FALSE
    ELSE WholeRecords(buf, o + 4 + SizeOf(buf[o + 1] % 4))

\* the number of whole records at the front of the buffer
RECURSIVE CountWhole(_, _)
CountWhole(buf, o) ==
    IF Len(buf) - o < 4 THEN 0
    ELSE IF Len(buf) - o - 4 < SizeOf(buf[o + 1] % 4) THEN 0
    ELSE 1 + CountWhole(buf, o + 4 + SizeOf(buf[o + 1] % 4))

\* C9: the decoder reads no byte at or past the buffer end, hands out a value
\* only for a record that is wholly inside the buffer, and a buffer that ends
\* inside a header or inside a value makes decode fail.
C9_NoReadPastEnd ==
    /\ \A o \in reads : o >= 0 /\ o < Len(buffer_)
    /\ Len(fields) <= CountWhole(buffer_, 0)
    /\ (~WholeRecords(buffer_, 0) /\ pc \notin {"decode"}) =>
          (result = "nullptr" /\ failure = "props")

C9_Witness ==
    /\ ~WholeRecords(buffer_, 0)
    /\ Len(fields) = 1
    /\ Len(buffer_) - data_ \in 1..7
    /\ result = "nullptr"
    /\ failure = "props"

\* the 30-bit property id of the header at offset o: header >> 2
HeaderId(buf, o) ==
    (buf[o + 1] + 256 * buf[o + 2] + 65536 * buf[o + 3] + 16777216 * buf[o + 4]) \div 4

\* C10: the id next() returns is the full header >> 2, and a record whose id
\* is no recognized property code is consumed without changing the record or
\* the feature words.
C10_UnrecognizedIdDiscarded ==
    [][ (pc = "decode" /\ fields' # fields) =>
          /\ Last(fields')[1] = HeaderId(buffer_, data_)
          /\ HeaderId(buffer_, data_) \notin prop_codes =>
                /\ info_' = info_
                /\ raw_core_features' = raw_core_features
                /\ raw_thread_features' = raw_thread_features
      ]_vars

\* the <<id, value>> pairs a stream was packed from, in stream order
Packed(s) == [i \in 1..Len(s) |-> <<s[i][1], s[i][3]>>]

\* C11: round trip: decoding the buffer packed from a stream of (id, width,
\* value) triples yields each record's original id and its value zero-extended
\* to 64 bits, in stream order, and consumes the whole buffer.
C11_RoundTrip ==
    buffer_ = PackAll(stream) =>
        /\ Len(fields) <= Len(stream)
        /\ \A i \in 1..Len(fields) : fields[i] = Packed(stream)[i]
        /\ size_ = 0 => (data_ = Len(buffer_) /\ fields = Packed(stream))

\* the records of a stream that carry property id
RecordsOf(s, id) == { i \in 1..Len(s) : s[i][1] = id }

\* the value of the only record with property id, zero when there is none
ValueOf(s, id) ==
    IF RecordsOf(s, id) = {} THEN U64Zero ELSE s[CHOOSE i \in RecordsOf(s, id) : TRUE][3]

\* population count of a 64-bit word
Popcount64(v) == Popcount(v[1]) + Popcount(v[2]) + Popcount(v[3]) + Popcount(v[4])

\* a stream that reports its group count once, each group mask at most once,
\* and whose masks have no bit above 31
PlainGroups(s) ==
    /\ Cardinality(RecordsOf(s, 62)) = 1
    /\ \A k \in 64..67 : Cardinality(RecordsOf(s, k)) <= 1
    /\ \A k \in 64..67 : ValueOf(s, k)[3] = 0 /\ ValueOf(s, k)[4] = 0

\* the population count summed over the mask words of the slots below the
\* reported group count, at most four
CoresOfReportedGroups(s) ==
    LET n == ToU32(ValueOf(s, 62))
        word(k) == IF k < n THEN Popcount64(ValueOf(s, 64 + k)) ELSE 0
    IN  word(0) + word(1) + word(2) + word(3)

\* the whole buffer of the stream has been decoded
WholeDecoded == buffer_ = PackAll(stream) /\ size_ = 0 /\ Len(fields) = Len(stream)

\* C12: after decoding a PostEpoch stream the shader core count is the
\* population count summed over the first num_core_groups (at most 4) group
\* masks; a mask in a slot at or beyond the reported group count adds nothing.
C12_CoresFromReportedGroups ==
    (WholeDecoded /\ PlainGroups(stream)) =>
        info_.num_shader_cores = CoresOfReportedGroups(stream)

\* the stream reports a coherency group count above four
ReportsMoreThanFourGroups(s) ==
    \E i \in RecordsOf(s, 61) \cup RecordsOf(s, 62) : ToU32(s[i][3]) > 4

\* C13: decoding a PostEpoch stream that reports a coherency group count
\* greater than 4 fails: decode returns failure and create returns no object.
C13_TooManyGroupsFails ==
    (buffer_ = PackAll(stream) /\ ReportsMoreThanFourGroups(stream) /\ pc # "decode") =>
        (result = "nullptr" /\ failure = "props")

\* raw & mask for the two masks of the table, by digits
Masked(raw, mask) ==
    IF mask = 65535 THEN raw % 65536
    ELSE IF mask = 61455 THEN ((raw \div 4096) % 16) * 4096 + (raw % 16)
    ELSE -1

\* entry i matches: (raw & mask) == pattern and core_count >= min_cores
EntryMatches(i, raw, core_count) ==
    /\ Masked(raw, PRODUCT_VERSIONS[i].mask) = PRODUCT_VERSIONS[i].id
    /\ core_count >= PRODUCT_VERSIONS[i].min_cores

\* entry i is the first entry in declaration order that matches
FirstMatch(i, raw, core_count) ==
    /\ EntryMatches(i, raw, core_count)
    /\ \A j \in 1..(i - 1) : ~EntryMatches(j, raw, core_count)

\* C14: matching is first-match-wins in declaration order: the name, engine
\* count, FP32, texel and pixel lookups answer from the first entry with
\* (raw & mask) == pattern and core_count >= min_cores; for the patterns
\* 0xb002 and 0xb003, 10 cores or more give Immortalis-G715, 7..9 give
\* Mali-G715 and 1..6 give Mali-G615.
C14_FirstMatchWins ==
    pc \in {"looked_up", "renormalized"} =>
        LET raw == props.product_id
            core_count == info_.num_shader_cores
            cf == ToU32(raw_core_features)
            tf == ToU32(raw_thread_features)
        IN  /\ \A i \in 1..Len(PRODUCT_VERSIONS) :
                  FirstMatch(i, raw, core_count) =>
                      LET entry == PRODUCT_VERSIONS[i]
                          engines == Call(entry.get_num_exec_engines, core_count, cf, tf)
                      IN  /\ info_.gpu_name = entry.name
                          /\ info_.num_exec_engines = engines
                          /\ info_.num_fp32_fmas_per_cy = entry.fp32_fmas_per_engine * engines
                          /\ info_.num_texels_per_cy = Call(entry.get_num_texels, core_count, cf, tf)
                          /\ info_.num_pixels_per_cy = Call(entry.get_num_pixels, core_count, cf, tf)
            /\ Masked(raw, 61455) \in {45058, 45059} =>
                  /\ core_count >= 10 => info_.gpu_name = "Immortalis-G715"
                  /\ core_count \in 7..9 => info_.gpu_name = "Mali-G715"
                  /\ core_count \in 1..6 => info_.gpu_name = "Mali-G615"

C14_Witness ==
    /\ pc = "looked_up"
    /\ props.product_id = 45058
    /\ info_.num_shader_cores = 8
    /\ info_.gpu_name = "Mali-G715"

\* no entry's pattern matches the identifier under the entry's mask
NoEntryFor(raw) ==
    \A i \in 1..Len(PRODUCT_VERSIONS) :
        Masked(raw, PRODUCT_VERSIONS[i].mask) # PRODUCT_VERSIONS[i].id

\* C15: when no table entry matches the raw identifier, the name and the
\* architecture are the unknown-model sentinel, the engine count, FP32, texel
\* and pixel lookups are 0, and the query as a whole fails: no instance.
C15_UnknownModelFails ==
    NoEntryFor(info_.gpu_id) =>
        /\ info_.gpu_name \in {NullStr, UnknownGpu}
        /\ info_.architecture_name \in {NullStr, UnknownGpu}
        /\ info_.num_exec_engines = 0
        /\ info_.num_fp32_fmas_per_cy = 0
        /\ info_.num_texels_per_cy = 0
        /\ info_.num_pixels_per_cy = 0
        /\ result # "instance"

\* C16: for a matched descriptor the FP32 rate is fp32_fmas_per_engine times
\* the engine count its engine-count function gives for (core_count,
\* core_features, thread_features); identifier 0x7002 with 8 cores and a
\* core_features low nibble of 4 has 4 engines and an FP32 rate of 32.
C16_Fp32PerEngineTimesEngines ==
    pc \in {"looked_up", "renormalized"} =>
        LET raw == props.product_id
            core_count == info_.num_shader_cores
            cf == ToU32(raw_core_features)
        IN  /\ \A i \in 1..Len(PRODUCT_VERSIONS) :
                  FirstMatch(i, raw, core_count) =>
                      info_.num_fp32_fmas_per_cy =
                          PRODUCT_VERSIONS[i].fp32_fmas_per_engine * info_.num_exec_engines
            /\ (raw = 28674 /\ core_count = 8 /\ cf % 16 = 4) =>
                  (info_.num_exec_engines = 4 /\ info_.num_fp32_fmas_per_cy = 32)
            /\ (Masked(raw, 61455) = 28674 /\ core_count >= 1) =>
                  (info_.num_exec_engines = cf % 16
                     /\ info_.num_fp32_fmas_per_cy = 8 * (cf % 16))

C16_Witness ==
    /\ pc = "looked_up"
    /\ props.product_id = 28674
    /\ info_.num_shader_cores = 8
    /\ ToU32(raw_core_features) = 20
    /\ info_.num_exec_engines = 4
    /\ info_.num_fp32_fmas_per_cy = 32

\* C17: in the record of every instance create returned, under either
\* dialect, num_fp16_fmas_per_cy is twice num_fp32_fmas_per_cy.
C17_Fp16TwiceFp32 ==
    result = "instance" =>
        info_.num_fp16_fmas_per_cy = 2 * info_.num_fp32_fmas_per_cy

C17_Witness ==
    /\ result = "instance"
    /\ iface_ = "post_r21"
    /\ info_.num_fp32_fmas_per_cy = 128
    /\ info_.num_fp16_fmas_per_cy = 256

\* C18: get_gpu_id is idempotent: applied to its own result it returns that
\* result again, for identifiers some entry matches and for those none does.
C18_NormalizationIdempotent ==
    [][ (pc = "looked_up" /\ pc' = "renormalized") => info_'.gpu_id = info_.gpu_id ]_vars

C18_Witness ==
    /\ pc = "renormalized"
    /\ props.product_id = 28946
    /\ info_.gpu_id = 28674

\* C19: each of the 30 entries of the table has a pre-masked pattern,
\* id & mask = id, and its mask is 0xFFFF or 0xF00F; so an identifier equal to
\* an entry's pattern is matched and is its own canonical identifier.
C19_PatternsPreMasked ==
    /\ Len(PRODUCT_VERSIONS) = 30
    /\ \A i \in 1..Len(PRODUCT_VERSIONS) :
          LET entry == PRODUCT_VERSIONS[i]
          IN  /\ entry.mask \in {65535, 61455}
              /\ Masked(entry.id, entry.mask) = entry.id
              /\ (pc \in {"looked_up", "renormalized"} /\ props.product_id = entry.id) =>
                    (info_.gpu_id = entry.id /\ info_.architecture_name = entry.architecture)

C19_Witness ==
    /\ pc = "looked_up"
    /\ props.product_id = 45059
    /\ info_.gpu_id = 45059
    /\ info_.architecture_name = "Valhall"

\* entry i is the first whose pattern matches under its own mask, whatever
\* the core count
FirstPatternMatch(i, raw) ==
    /\ Masked(raw, PRODUCT_VERSIONS[i].mask) = PRODUCT_VERSIONS[i].id
    /\ \A j \in 1..(i - 1) : Masked(raw, PRODUCT_VERSIONS[j].mask) # PRODUCT_VERSIONS[j].id

\* C20: the identifier the cleanup stores is raw & mask of the first entry
\* whose pattern matches under its own mask, min_cores not consulted, and the
\* raw identifier itself when no pattern matches; the name and the
\* architecture it stores are those looked up for the raw identifier.
C20_CanonicalIdentifier ==
    [][ (pc = "init_props_cleanup" /\ pc' # pc) =>
          LET raw == info_.gpu_id
              core_count == info_.num_shader_cores
          IN  /\ NoEntryFor(raw) =>
                    /\ info_'.gpu_id = raw
                    /\ info_'.architecture_name = UnknownGpu
              /\ \A i \in 1..Len(PRODUCT_VERSIONS) :
                    FirstPatternMatch(i, raw) =>
                        /\ info_'.gpu_id = Masked(raw, PRODUCT_VERSIONS[i].mask)
                        /\ info_'.architecture_name = PRODUCT_VERSIONS[i].architecture
              /\ \A i \in 1..Len(PRODUCT_VERSIONS) :
                    FirstMatch(i, raw, core_count) =>
                        info_'.gpu_name = PRODUCT_VERSIONS[i].name
              /\ (\A i \in 1..Len(PRODUCT_VERSIONS) : ~EntryMatches(i, raw, core_count)) =>
                    info_'.gpu_name = UnknownGpu
      ]_vars

C20_Witness ==
    /\ pc = "alive"
    /\ props.product_id = 25121
    /\ info_.num_shader_cores = 0
    /\ info_.gpu_id = 24577
    /\ info_.gpu_name = UnknownGpu
    /\ info_.architecture_name = "Bifrost"

VersionRequests ==
    {"pre_r21::version_check", "post_r21::version_check_jm", "post_r21::version_check_csf"}
FlagsRequests == {"pre_r21::set_flags", "post_r21::set_flags"}
PropsRequests == {"pre_r21::get_gpuprops", "post_r21::get_gpuprops"}

\* how often a request occurs in a log
Count(q, x) == Cardinality({ i \in DOMAIN q : q[i] = x })

\* C21: the requests go out in the order version negotiation, flags
\* configuration, property query: the flags request is sent only after
\* check_version returned success, and a property query is sent only when
\* the negotiation and the flags request have both succeeded.
C21_RequestOrder ==
    [][ ioctls' # ioctls =>
          /\ Last(ioctls') \in VersionRequests =>
                (cv = "pending" /\ \A i \in DOMAIN ioctls : ioctls[i] \in VersionRequests)
          /\ Last(ioctls') \in FlagsRequests =>
                /\ cv = "true"
                /\ ioctls # <<>>
                /\ \A i \in DOMAIN ioctls : ioctls[i] \in VersionRequests
          /\ Last(ioctls') \in PropsRequests =>
                /\ cv = "true"
                /\ failure = "none"
                /\ \E i \in DOMAIN ioctls : ioctls[i] \in FlagsRequests
                /\ LastIoctl \in FlagsRequests => status \in {0, EINVAL, EPERM}
      ]_vars

C21_Witness ==
    /\ ioctls = <<"pre_r21::version_check", "post_r21::version_check_jm",
                  "post_r21::set_flags", "post_r21::get_gpuprops",
                  "post_r21::get_gpuprops">>
    /\ result = "instance"
    /\ status = 0

\* the flags request and the property request of a dialect
RequestsOf(iface) ==
    IF iface = "pre_r21" THEN {"pre_r21::set_flags", "pre_r21::get_gpuprops"}
    ELSE {"post_r21::set_flags", "post_r21::get_gpuprops"}

\* C22: once check_version has returned success the dialect stays as it is,
\* and it alone selects the later steps: PreEpoch sends the PreEpoch flags
\* payload and one fixed-layout property call, PostEpoch sends the PostEpoch
\* flags payload and the two-phase retrieval that feeds the decoder; the two
\* strategies are never both run for one instance.
C22_DialectFixed ==
    [][ /\ cv = "true" => iface_' = iface_
        /\ (ioctls' # ioctls /\ Last(ioctls') \in FlagsRequests \cup PropsRequests) =>
              /\ Last(ioctls') \in RequestsOf(iface_)
              /\ \A i \in DOMAIN ioctls :
                    ioctls[i] \in FlagsRequests \cup PropsRequests =>
                        ioctls[i] \in RequestsOf(iface_)
        /\ Count(ioctls', "pre_r21::get_gpuprops") <= 1
        /\ Count(ioctls', "post_r21::get_gpuprops") <= 2
        /\ props' # props => (iface_ = "pre_r21" /\ Count(ioctls', "post_r21::get_gpuprops") = 0)
        /\ (buffer_' # buffer_ \/ fields' # fields) =>
              (iface_ = "post_r21" /\ props = uk_gpuprops_zero
                 /\ Count(ioctls', "pre_r21::get_gpuprops") = 0)
      ]_vars

C22_Witness ==
    /\ iface_ = "pre_r21"
    /\ ioctls = <<"pre_r21::version_check", "pre_r21::set_flags", "pre_r21::get_gpuprops">>
    /\ result = "instance"
    /\ fields = <<>>

\* C23: the flags step succeeds iff its request reports no error, EINVAL
\* (already configured) or EPERM (not permitted); any other error code makes
\* the construction fail, and then no property query is sent.
C23_FlagsTolerance ==
    [][ /\ (ioctls' # ioctls /\ Last(ioctls') \in FlagsRequests) =>
              IF status' \in {0, EINVAL, EPERM}
              THEN /\ pc' \in {"init_props_pre_r21", "init_props_post_r21"}
                   /\ result' = "pending"
                   /\ failure' = "none"
              ELSE /\ pc' = "done"
                   /\ result' = "nullptr"
                   /\ failure' = "flags"
        /\ failure = "flags" =>
              (ioctls' = ioctls /\ \A i \in DOMAIN ioctls : ioctls[i] \notin PropsRequests)
      ]_vars

C23_Witness ==
    /\ LastIoctl = "post_r21::set_flags"
    /\ status = EPERM
    /\ pc = "init_props_post_r21"
    /\ result = "pending"

\* C24: under PostEpoch an error of the size-probe call ends the query
\* before a buffer is allocated or filled, an error of the buffer-fill call
\* ends it before a byte is decoded, and the decoder runs only after both
\* calls reported no error.
C24_TwoPhaseErrors ==
    [][ /\ (ioctls' # ioctls /\ Last(ioctls') = "post_r21::get_gpuprops"
              /\ Count(ioctls', "post_r21::get_gpuprops") = 1) =>
              /\ buffer_' = <<>>
              /\ IF status' # 0
                 THEN /\ result' = "nullptr"
                      /\ failure' = "props"
                      /\ pc' = "done"
                      /\ blob' = <<>>
                 ELSE pc' = "post_r21_fill"
        /\ (ioctls' # ioctls /\ Last(ioctls') = "post_r21::get_gpuprops"
              /\ Count(ioctls', "post_r21::get_gpuprops") = 2) =>
              /\ fields' = <<>>
              /\ reads' = {}
              /\ IF status' # 0
                 THEN /\ result' = "nullptr"
                      /\ failure' = "props"
                      /\ pc' = "done"
                      /\ buffer_' = <<>>
                 ELSE pc' = "decode"
        /\ (fields' # fields \/ reads' # reads \/ data_' # data_) =>
              /\ Count(ioctls, "post_r21::get_gpuprops") = 2
              /\ status = 0
              /\ errno = 0
      ]_vars

C24_Witness ==
    /\ Count(ioctls, "post_r21::get_gpuprops") = 2
    /\ status = EINVAL
    /\ blob # <<>>
    /\ buffer_ = <<>>
    /\ fields = <<>>
    /\ result = "nullptr"
    /\ failure = "props"

\* the feature words the driver reported under the negotiated dialect; the
\* fixed-layout structure of PreEpoch carries thread_features and no
\* core-feature word
ReportedCoreFeatures ==
    IF iface_ = "pre_r21" THEN 0 ELSE ToU32(raw_core_features)
ReportedThreadFeatures ==
    IF iface_ = "pre_r21" THEN props.thread_features ELSE ToU32(raw_thread_features)

\* C25: under PreEpoch as under PostEpoch the engine count, FP32, texel and
\* pixel lookups are evaluated on the feature words the driver reported, so
\* equal identifier, core count and feature words give equal metrics.
C25_FeatureWordsBothDialects ==
    pc = "init_props_cleanup" =>
        \A i \in 1..Len(PRODUCT_VERSIONS) :
            FirstMatch(i, info_.gpu_id, info_.num_shader_cores) =>
                LET entry == PRODUCT_VERSIONS[i]
                    engines == Call(entry.get_num_exec_engines, info_.num_shader_cores,
                                    ReportedCoreFeatures, ReportedThreadFeatures)
                IN  /\ info_.num_exec_engines = engines
                    /\ info_.num_fp32_fmas_per_cy = entry.fp32_fmas_per_engine * engines
                    /\ info_.num_texels_per_cy =
                          Call(entry.get_num_texels, info_.num_shader_cores,
                               ReportedCoreFeatures, ReportedThreadFeatures)
                    /\ info_.num_pixels_per_cy =
                          Call(entry.get_num_pixels, info_.num_shader_cores,
                               ReportedCoreFeatures, ReportedThreadFeatures)


\* C26: no request is retried: each version probe, the flags request and the
\* PreEpoch property call are sent at most once, the PostEpoch property
\* request at most twice (the size probe, then the fill), and no request is
\* sent once a step has failed.
C26_NoRetry ==
    [][ ioctls' # ioctls =>
          /\ result = "pending"
          /\ failure = "none"
          /\ \E x \in VersionRequests \cup FlagsRequests \cup PropsRequests :
                /\ ioctls' = Append(ioctls, x)
                /\ IF x = "post_r21::get_gpuprops"
                   THEN /\ Count(ioctls, x) <= 1
                        /\ Count(ioctls, x) = 1 <=> pc = "post_r21_fill"
                   ELSE Count(ioctls, x) = 0
      ]_vars

C26_Witness ==
    /\ ioctls = <<"pre_r21::version_check", "post_r21::version_check_jm",
                  "post_r21::version_check_csf", "post_r21::set_flags",
                  "post_r21::get_gpuprops", "post_r21::get_gpuprops">>
    /\ pc = "done"
    /\ failure = "props"


\* C27: in every created instance the GPU name is the sentinel exactly when
\* the architecture name is the sentinel, whatever the identifier and the
\* core count (zero included).
C27_NameAndArchitectureTogether ==
    result = "instance" =>
        (info_.gpu_name = UnknownGpu <=> info_.architecture_name = UnknownGpu)


\* every set bit of the first n core masks of a fixed-layout structure
RECURSIVE GroupMaskBits(_, _)
GroupMaskBits(p, n) ==
    IF n = 0 THEN 0 ELSE GroupMaskBits(p, n - 1) + Popcount64(p.group[n])

\* every set bit of the coherency_group_0..3 records among the first n of a
\* stream
RECURSIVE RecordMaskBits(_, _)
RecordMaskBits(s, n) ==
    IF n = 0 THEN 0
    ELSE RecordMaskBits(s, n - 1)
           + (IF s[n][1] \in 64..67 THEN Popcount64(s[n][3]) ELSE 0)

\* C28: the shader core count counts every set bit of each 64-bit core mask,
\* bits 32..63 included, on the PreEpoch path (the masks of the reported
\* groups held by the structure) and on the PostEpoch path (the mask records
\* decoded).
C28_AllMaskBitsCounted ==
    /\ (pc = "init_props_cleanup" /\ iface_ = "pre_r21"
          /\ props.num_core_groups <= base_max_coherent_groups) =>
            info_.num_shader_cores = GroupMaskBits(props, props.num_core_groups)
    /\ (WholeDecoded /\ iface_ # "pre_r21") =>
            info_.num_shader_cores = RecordMaskBits(stream, Len(stream))


\* C29: the decode loop terminates for every buffer: each iteration either
\* fails or lowers the remaining byte count by 5, 6, 8 or 12, consumed plus
\* remaining bytes equal the buffer length at every step, and a decoder that
\* has been started leaves its loop.
C29_DecodeTerminates ==
    /\ [][ /\ (pc = "decode" /\ decode_more(size_)) =>
                 \/ (pc' = "done" /\ result' = "nullptr" /\ failure' = "props")
                 \/ (pc' = "decode" /\ size_ - size_' \in {5, 6, 8, 12})
           /\ (pc = "decode" \/ pc' = "decode") =>
                 data_' + size_' = Len(buffer_')
         ]_vars
    /\ (pc = "decode") ~> (pc # "decode")

C29_Witness ==
    /\ pc = "decode"
    /\ Len(fields) = 3
    /\ size_ = 0
    /\ data_ = Len(buffer_)
    /\ data_ = 6 + 8 + 12


\* C30: whether the flags step and each property-retrieval step go on is
\* decided by the error status of the step's own request alone: an errno
\* value an earlier zero-pair version probe, or a tolerated flags error,
\* left behind never makes a later step fail.
C30_OwnStatusOnly ==
    [][ (ioctls' # ioctls /\ Last(ioctls') \in FlagsRequests \cup PropsRequests) =>
          IF \/ Last(ioctls') \in FlagsRequests /\ status' \in {0, EINVAL, EPERM}
             \/ Last(ioctls') \in PropsRequests /\ status' = 0
          THEN /\ result' = "pending"
               /\ failure' = "none"
               /\ pc' # "done"
          ELSE /\ result' = "nullptr"
               /\ failure' = IF Last(ioctls') \in FlagsRequests THEN "flags" ELSE "props"
               /\ pc' = "done"
      ]_vars

C30_Witness ==
    /\ stale_errno
    /\ LastIoctl = "post_r21::get_gpuprops"
    /\ status = 0
    /\ errno = 0
    /\ pc = "post_r21_fill"
    /\ failure = "none"

====
